---- MODULE Spec2Model ----
(***************************************************************************)
(* A model of tar2sqfs (squashfs-tools-ng): the main pipeline of           *)
(* tar/tar2sqfs.c, the tar record loop process_tar_ball, the tree          *)
(* serialiser of lib/common/serialize_fstree.c, the path separator         *)
(* helpers of lib/compat/path_sep.c and the option parser of               *)
(* lib/compat/getopt.c and getopt_long.c.                                  *)
(*                                                                         *)
(* Five specifications share the module:                                   *)
(*   Spec      main() from the return of process_args to its return        *)
(*   SpecTar   process_tar_ball() alone, over a richer set of records      *)
(*   SpecSer   sqfs_serialize_fstree() over small trees                    *)
(*   SpecPath  skip_path_seps() / next_path_sep() over short strings       *)
(*   SpecOpt   a loop over getopt() / getopt_long() with tar2sqfs's tables *)
(***************************************************************************)
EXTENDS Integers, Sequences, FiniteSets, TLC

VARIABLES
    \* ---- tar2sqfs.c: options (file-scope statics, lines 100-113)
    dont_skip, no_xattr, exportable, devblksize,
    \* ---- tar2sqfs.c: main() and process_tar_ball()
    pc,          \* the statement main is about to execute
    status,      \* main's local `status`
    exitCode,    \* value returned by main, -1 while it runs
    failedStep,  \* name of the step that reported an error, "" if none
    stream,      \* the tar archive on stdin: a sequence of decoded records
    pos,         \* byte offset of stdin
    nodes,       \* tree nodes created by fstree_add_generic, in order
    packed,      \* file bodies handed to the data writer, in order
    reclog,      \* one entry per record that read_header returned
    tarRet,      \* return value of process_tar_ball, 2 while not returned
    sinkSize,    \* outfile->get_size(outfile)
    bytes_used,  \* super.bytes_used
    sizeBeforePad, \* sink size when padd_sqfs was called, -1 before
    sections,    \* the image sections written so far, in order
    \* ---- serialize_fstree.c
    spc,         \* position inside sqfs_serialize_fstree
    tree,        \* the tree being serialised: node -> [parent, kind]
    user_ptr,    \* node -> TRUE when data.file.user_ptr is not NULL
    initPtr,     \* user_ptr as it was on entry
    inode_ref,   \* node -> inode_ref field
    stack,       \* activation records of serialize_recursive
    imBlock, imOffset, \* position of the inode meta writer
    inodeLog,    \* inodes written to the inode meta writer <<node, ref>>
    dirLog,      \* directory entries written <<dir, child, ref, #inodeLog>>
    callLog,     \* nodes passed to serialize_tree_node, in order
    serRet,      \* return value of sqfs_serialize_fstree
    root_inode_ref, inode_table_start, directory_table_start,
    serSink,     \* wr->outfile size during serialisation
    imFlushed, dmFlushed, dmBuffered,
    \* ---- path_sep.c
    windows,     \* TRUE when built with _WIN32 / __WINDOWS__
    pstr,        \* the string passed in
    pstart,      \* index (1-based) of `in` inside pstr
    pres,        \* the last call and its result: [fn, at]
    \* ---- getopt.c, getopt_long.c
    api,         \* the function the option loop calls
    argv,        \* argv[1] .. argv[argc - 1], each a sequence of characters
    optind,      \* index of the next argument
    current,     \* getopt's static `current`: [arg, at], arg 0 is ""
    optarg,      \* [arg, at], arg 0 is NULL
    optret,      \* what the last call returned, "none" before the first
    optindBefore, currentBefore, \* optind and current when it was called
    scanIndex    \* last index of longopts[] the last call read, -1 if none

optVars  == <<dont_skip, no_xattr, exportable, devblksize>>
mainVars == <<pc, status, exitCode, failedStep, sinkSize, bytes_used,
              sizeBeforePad, sections>>
tarVars  == <<stream, pos, nodes, packed, reclog, tarRet>>
serVars  == <<spc, tree, user_ptr, initPtr, inode_ref, stack, imBlock,
              imOffset, inodeLog, dirLog, callLog, serRet, root_inode_ref,
              inode_table_start, directory_table_start, serSink, imFlushed,
              dmFlushed, dmBuffered>>
pathVars == <<windows, pstr, pstart, pres>>
getoptVars == <<api, argv, optind, current, optarg, optret, optindBefore,
                currentBefore, scanIndex>>
vars     == <<optVars, mainVars, tarVars, serVars, pathVars, getoptVars>>

(***************************************************************************)
(* Bounds of the model                                                     *)
(***************************************************************************)
MaxRecords     == 2   \* records per archive in SpecTar
MaxMainRecords == 1   \* records per archive in Spec
MaxNodes       == 5   \* nodes per tree in SpecSer
MaxLen         == 3   \* characters per string in SpecPath
MaxArgs        == 2   \* arguments per command line in SpecOpt
MaxOverrun     == 1   \* objects behind long_opts[] taken for entries

(***************************************************************************)
(* Program constants                                                       *)
(***************************************************************************)
EXIT_SUCCESS  == 0
EXIT_FAILURE  == 1
TarBlock      == 512     \* tar record size
TarEofMarker  == 1024    \* two zero records end an archive
SuperSize     == 96      \* sizeof(sqfs_super_t)
MetaBlockSize == 8192    \* SQFS_META_BLOCK_SIZE

SeqSum(s, F(_)) ==
    LET RECURSIVE Go(_)
        Go(t) == IF t = <<>> THEN 0 ELSE F(Head(t)) + Go(Tail(t))
    IN Go(s)

IsPrefix(s, t) == Len(s) <= Len(t) /\ SubSeq(t, 1, Len(s)) = s

(***************************************************************************)
(* The tar archive on stdin.  A decoded record carries the fields of       *)
(* tar_header_decoded_t that tar2sqfs.c reads.  A NULL list is <<>>.       *)
(***************************************************************************)
Ext(o, c) == [offset |-> o, count |-> c]

\* tests/tar_sparse.c: the sparse map of the fixture, lines 26-72
FixtureMap ==
    << Ext(0, 4096), Ext(262144, 4096), Ext(524288, 4096), Ext(786432, 4096),
       Ext(1048576, 4096), Ext(1310720, 4096), Ext(1572864, 4096),
       Ext(1835008, 4096), Ext(2097152, 0) >>

\* tests/tar_sparse.c lines 20-22: st_size, actual_size, record_size
FixtureActualSize == 2097152
FixtureRecordSize == 32768

Rec(name, unknown, isreg, sparse, st_size, record_size, xattr) ==
    [name |-> name, unknown_record |-> unknown, isreg |-> isreg,
     sparse |-> sparse, st_size |-> st_size, record_size |-> record_size,
     xattr |-> xattr]

\* xattr keys as <<prefix, rest>>
XattrLists ==
    { <<>>,
      << <<"user.", "a">> >>,
      << <<"foo.", "x">>, <<"security.", "b">> >>,
      << <<"user.", "a">>, <<"foo.", "x">>, <<"trusted.", "c">> >> }

\* records without a sparse map: record_size = st_size
PlainRecords ==
    { Rec("a", FALSE, TRUE, <<>>, sz, sz, <<>>) : sz \in {0, 1000} }
    \cup { Rec("a", FALSE, FALSE, <<>>, 0, 0, x) : x \in XattrLists \ {<<>>} }

\* records with a bad name or an unknown type
AnomalousRecords ==
    { Rec("NULL", FALSE, TRUE, <<>>, 1000, 1000, <<>>),
      Rec("..", FALSE, TRUE, <<>>, 512, 512, << <<"user.", "a">> >>),
      Rec("a", TRUE, TRUE, <<>>, 1000, 1000, <<>>) }

SmallMaps ==
    { << Ext(0, 512), Ext(1024, 512) >>,      \* ascending
      << Ext(1024, 512), Ext(0, 512) >>,      \* descending
      << Ext(0, 512), Ext(256, 512) >> }      \* overlapping

\* records with a sparse map: st_size is the logical size
SparseRecords ==
    { Rec("a", FALSE, TRUE, m, 2048, rs, <<>>) :
          m \in SmallMaps, rs \in {512, 1024} }
    \cup { Rec("a", FALSE, TRUE, << Ext(0, 512), Ext(2048, 0) >>, 2048, 512,
               <<>>),
           Rec("a", FALSE, TRUE, FixtureMap, FixtureActualSize,
               FixtureRecordSize, <<>>),
           Rec("..", FALSE, TRUE, << Ext(0, 512), Ext(1024, 512) >>, 2048,
               1024, <<>>) }

Records == PlainRecords \cup AnomalousRecords \cup SparseRecords

MainRecords ==
    { Rec("a", FALSE, TRUE, <<>>, 1000, 1000, << <<"foo.", "x">> >>),
      Rec("..", FALSE, TRUE, <<>>, 1000, 1000, <<>>),
      Rec("a", FALSE, TRUE, << Ext(0, 512), Ext(1024, 512) >>,
          2048, 1024, <<>>) }

SeqsUpTo(S, n) == UNION { [1..k -> S] : k \in 0..n }

RoundUp(n) == ((n + TarBlock - 1) \div TarBlock) * TarBlock

\* offset of the header of record i (Len+1: the end-of-archive marker)
RECURSIVE HdrPos(_)
HdrPos(i) ==
    IF i = 1 THEN 0
    ELSE HdrPos(i - 1) + TarBlock + RoundUp(stream[i - 1].record_size)

StreamEnd   == HdrPos(Len(stream) + 1)
StreamLimit == StreamEnd + TarEofMarker

IsHdrPos(p) == \E i \in 1..Len(stream) : HdrPos(i) = p
HdrIndex(p) == CHOOSE i \in 1..Len(stream) : HdrPos(i) = p

(***************************************************************************)
(* The environment of one loop iteration: which library call fails (at     *)
(* most one), and what a block that is not a header looks like.            *)
(***************************************************************************)
FailPoints == {"none", "read_header", "skip_entry", "add_generic",
               "add_xattr", "stdin_file", "write_data", "skip_padding"}
\* the choices that matter on each path through the loop
EnvRead == [fail : {"none", "read_header"}, garbage : {"bad", "zero"}]
EnvSkip == [fail : {"none", "skip_entry"}, garbage : {"bad"}]
EnvPack == [fail : FailPoints \ {"read_header", "skip_entry"},
            garbage : {"bad"}]

\* read_header(): > 0 at the end of the archive, < 0 on error, 0 and a record
read_header(p, env) ==
    IF env.fail = "read_header" THEN [ret |-> -1, idx |-> 0]
    ELSE IF p = StreamEnd THEN [ret |-> 1, idx |-> 0]
    ELSE IF IsHdrPos(p) THEN [ret |-> 0, idx |-> HdrIndex(p)]
    ELSE IF p + TarBlock > StreamLimit THEN [ret |-> -1, idx |-> 0]
    ELSE IF env.garbage = "zero" THEN [ret |-> 1, idx |-> 0]
    ELSE [ret |-> -1, idx |-> 0]

\* skip_padding(fd, size): consume up to the next multiple of the record size
skip_padding(p, size, env) ==
    LET tail == size % TarBlock
        n    == IF tail = 0 THEN 0 ELSE TarBlock - tail
    IN  IF env.fail = "skip_padding" \/ p + n > StreamLimit
        THEN [ret |-> -1, pos |-> p]
        ELSE [ret |-> 0, pos |-> p + n]

\* skip_entry(fd, size): consume size bytes and the padding after them
skip_entry(p, size, env) ==
    IF env.fail = "skip_entry" \/ p + RoundUp(size) > StreamLimit
    THEN [ret |-> -1, pos |-> p]
    ELSE [ret |-> 0, pos |-> p + RoundUp(size)]

canonicalize_name(name) == IF name \in {"", ".."} THEN -1 ELSE 0

sqfs_has_xattr(key) == key[1] \in {"user.", "trusted.", "security."}

(***************************************************************************)
(* process_tar_ball(): the checks that decide whether a record is skipped  *)
(***************************************************************************)
\* lines 341-345
name_invalid(hdr) == hdr.name = "NULL" \/ canonicalize_name(hdr.name) # 0

\* lines 353-363: the loop over the sparse map; the result is the skip flag
\* it sets and the count it has summed when it stops
RECURSIVE sparse_loop(_, _, _)
sparse_loop(m, offset, count) ==
    IF m = <<>> THEN [skip |-> FALSE, count |-> count]
    ELSE IF Head(m).offset < offset THEN [skip |-> TRUE, count |-> count]
    ELSE sparse_loop(Tail(m), Head(m).offset + Head(m).count,
                     count + Head(m).count)

\* the order check of lines 357-360 lost
broken_sparse_sum_only(hdr) ==
    SeqSum(hdr.sparse, LAMBDA e : e.count) # hdr.record_size

\* lines 352-372
broken_sparse(hdr) ==
    LET r == sparse_loop(hdr.sparse, hdr.sparse[1].offset, 0)
    IN  r.skip \/ r.count # hdr.record_size

\* lines 339-372: the value of `skip` at line 374
should_skip(hdr) ==
    IF name_invalid(hdr) THEN TRUE
    ELSE IF hdr.unknown_record THEN TRUE
    ELSE IF hdr.sparse # <<>> THEN broken_sparse(hdr)
    ELSE FALSE

\* line 377: the size handed to skip_entry
skip_size(hdr) == hdr.st_size

(***************************************************************************)
(* copy_xattr(), lines 267-290: the keys added to the node and the result  *)
(***************************************************************************)
\* `break` in place of `continue` at line 282
RECURSIVE copy_xattr_break(_, _, _)
copy_xattr_break(list, added, env) ==
    IF list = <<>> THEN [ret |-> 0, xattr |-> added, line |-> 289]
    ELSE IF ~sqfs_has_xattr(Head(list)) THEN
        IF dont_skip THEN [ret |-> -1, xattr |-> added, line |-> 277]
        ELSE [ret |-> 0, xattr |-> added, line |-> 289]
    ELSE IF env.fail = "add_xattr"
    THEN [ret |-> -1, xattr |-> added, line |-> 286]
    ELSE copy_xattr_break(Tail(list), Append(added, Head(list)), env)

\* line: the return statement taken (277, 286 or 289)
RECURSIVE copy_xattr(_, _, _)
copy_xattr(list, added, env) ==
    IF list = <<>> THEN [ret |-> 0, xattr |-> added, line |-> 289]
    ELSE IF ~sqfs_has_xattr(Head(list)) THEN
        IF dont_skip THEN [ret |-> -1, xattr |-> added, line |-> 277]
        ELSE copy_xattr(Tail(list), added, env)
    ELSE IF env.fail = "add_xattr"
    THEN [ret |-> -1, xattr |-> added, line |-> 286]
    ELSE copy_xattr(Tail(list), Append(added, Head(list)), env)

(***************************************************************************)
(* write_file(), lines 225-265.  fi_size is fi->size, the st_size that     *)
(* fstree_add_generic stored.  handed: a body was passed to the data       *)
(* writer; bytes: how many bytes of stdin it was to read.                  *)
(***************************************************************************)
write_body(p, nbytes, padsize, env) ==
    IF env.fail = "stdin_file"
    THEN [ret |-> -1, pos |-> p, handed |-> FALSE, bytes |-> 0]
    ELSE IF env.fail = "write_data" \/ p + nbytes > StreamLimit
    THEN [ret |-> -1, pos |-> p, handed |-> TRUE, bytes |-> nbytes]
    ELSE LET sp == skip_padding(p + nbytes, padsize, env)
         IN  [ret |-> sp.ret, pos |-> sp.pos, handed |-> TRUE,
              bytes |-> nbytes]

write_file(hdr, fi_size, p, env) ==
    IF hdr.sparse # <<>>
    THEN write_body(p, SeqSum(hdr.sparse, LAMBDA e : e.count),
                    hdr.record_size, env)
    ELSE write_body(p, fi_size, fi_size, env)

(***************************************************************************)
(* create_node_and_repack_data(), lines 292-322                            *)
(***************************************************************************)
NoNode == <<>>

create_node_and_repack_data(i, hdr, p, env) ==
    IF env.fail = "add_generic"
    THEN [ret |-> -1, node |-> NoNode, pos |-> p, handed |-> FALSE, bytes |-> 0]
    ELSE
      LET cx == IF no_xattr THEN [ret |-> 0, xattr |-> <<>>, line |-> 0]
                ELSE copy_xattr(hdr.xattr, <<>>, env)
          node == << [rec |-> i, xattr |-> cx.xattr, xret |-> cx.ret,
                      xline |-> cx.line] >>
      IN  IF cx.ret # 0
          THEN [ret |-> -1, node |-> node, pos |-> p, handed |-> FALSE,
                bytes |-> 0]
          ELSE IF hdr.isreg
          THEN LET wf == write_file(hdr, hdr.st_size, p, env)
               IN  [ret |-> IF wf.ret # 0 THEN -1 ELSE 0, node |-> node,
                    pos |-> wf.pos, handed |-> wf.handed, bytes |-> wf.bytes]
          ELSE [ret |-> 0, node |-> node, pos |-> p, handed |-> FALSE,
                bytes |-> 0]

(***************************************************************************)
(* process_tar_ball(), lines 324-392: one action per path through one      *)
(* iteration of its loop.                                                  *)
(***************************************************************************)
TarReturn(r) ==
    /\ tarRet' = r
    /\ pc' = IF r = 0 THEN "data_writer_sync" ELSE "out"
    /\ failedStep' = IF r = 0 THEN failedStep ELSE "process_tar_ball"
    /\ UNCHANGED <<status, exitCode, sinkSize, bytes_used, sizeBeforePad,
                   sections>>

TarContinue ==
    /\ UNCHANGED <<tarRet, mainVars>>

LogRec(i, skipped, bodyStart, endPos, ret) ==
    Append(reclog, [idx |-> i, skipped |-> skipped, bodyStart |-> bodyStart,
                    endPos |-> endPos, ret |-> ret])

\* lines 333-335: read_header reports the end of the archive
TarEndOfArchive ==
    /\ pc = "process_tar_ball"
    /\ \E env \in EnvRead :
         /\ read_header(pos, env).ret > 0
         /\ TarReturn(0)
    /\ UNCHANGED <<optVars, stream, pos, nodes, packed, reclog, serVars,
                   pathVars, getoptVars>>

\* lines 336-337: read_header fails
TarReadError ==
    /\ pc = "process_tar_ball"
    /\ \E env \in EnvRead :
         /\ read_header(pos, env).ret < 0
         /\ TarReturn(-1)
    /\ UNCHANGED <<optVars, stream, pos, nodes, packed, reclog, serVars,
                   pathVars, getoptVars>>

\* lines 374-376: an anomalous record with dont_skip set
TarAbortOnAnomaly ==
    /\ pc = "process_tar_ball"
    /\ \E env \in EnvSkip :
         LET rh == read_header(pos, env) IN
         /\ rh.ret = 0
         /\ should_skip(stream[rh.idx])
         /\ dont_skip
         /\ reclog' = LogRec(rh.idx, TRUE, pos + TarBlock, pos + TarBlock, -1)
         /\ pos' = pos + TarBlock
         /\ TarReturn(-1)
    /\ UNCHANGED <<optVars, stream, nodes, packed, serVars, pathVars,
                   getoptVars>>

\* lines 374-380: an anomalous record is skipped
TarSkip ==
    /\ pc = "process_tar_ball"
    /\ \E env \in EnvSkip :
         LET rh  == read_header(pos, env)
             hdr == stream[rh.idx]
             sk  == skip_entry(pos + TarBlock, skip_size(hdr), env)
         IN
         /\ rh.ret = 0
         /\ should_skip(hdr)
         /\ ~dont_skip
         /\ reclog' = LogRec(rh.idx, TRUE, pos + TarBlock, sk.pos, sk.ret)
         /\ pos' = sk.pos
         /\ IF sk.ret # 0 THEN TarReturn(-1) ELSE TarContinue
    /\ UNCHANGED <<optVars, stream, nodes, packed, serVars, pathVars,
                   getoptVars>>

\* lines 382-385: the record is accepted
TarPack ==
    /\ pc = "process_tar_ball"
    /\ \E env \in EnvPack :
         LET rh  == read_header(pos, env)
             hdr == stream[rh.idx]
             cr  == create_node_and_repack_data(rh.idx, hdr, pos + TarBlock,
                                                env)
         IN
         /\ rh.ret = 0
         /\ ~should_skip(hdr)
         /\ reclog' = LogRec(rh.idx, FALSE, pos + TarBlock, cr.pos, cr.ret)
         /\ pos' = cr.pos
         /\ nodes' = nodes \o cr.node
         /\ packed' = IF cr.handed
                      THEN Append(packed, [rec |-> rh.idx, bytes |-> cr.bytes])
                      ELSE packed
         /\ IF cr.ret # 0 THEN TarReturn(-1) ELSE TarContinue
    /\ UNCHANGED <<optVars, stream, serVars, pathVars, getoptVars>>

(***************************************************************************)
(* main(), lines 394-506.  Init is the state when process_args() has       *)
(* returned.  Each action is one call of main; a call that reports an      *)
(* error leaves through the label the code jumps to.                       *)
(***************************************************************************)
\* sizes a table or an option block may add to the image
TableSizes == {8, 40}

\* the statement that follows statement s when s succeeds
StepAfter(s) ==
    CASE s = "cfg_init"           -> "open_file"
      [] s = "open_file"          -> "fstree_init"
      [] s = "fstree_init"        -> "compressor_create"
      [] s = "compressor_create"  -> "super_init"
      [] s = "super_init"         -> "super_write"
      [] s = "super_write"        -> "write_options"
      [] s = "write_options"      -> "data_writer_create"
      [] s = "data_writer_create" -> "id_table_create"
      [] s = "id_table_create"    -> "process_tar_ball"
      [] s = "process_tar_ball"   -> "data_writer_sync"
      [] s = "data_writer_sync"   -> "gen_inode_table"
      [] s = "gen_inode_table"    -> "serialize_fstree"
      [] s = "serialize_fstree"   -> "fragment_table"
      [] s = "fragment_table"     -> IF exportable THEN "export_table"
                                     ELSE "id_table"
      [] s = "export_table"       -> "id_table"
      [] s = "id_table"           -> "xattr_table"
      [] s = "xattr_table"        -> "get_size"
      [] s = "get_size"           -> "super_rewrite"
      [] s = "super_rewrite"      -> "padd"
      [] s = "padd"               -> "success"

\* the export table written whether or not exportable is set
NextStep_ExportAlways(s) ==
    IF s = "fragment_table" THEN "export_table" ELSE StepAfter(s)

\* line 481 moved in front of the xattr table
NextStep_SizeBeforeXattr(s) ==
    CASE s = "id_table"    -> "get_size"
      [] s = "get_size"    -> "xattr_table"
      [] s = "xattr_table" -> "super_rewrite"
      [] OTHER             -> StepAfter(s)

NextStep(s) == StepAfter(s)

\* sqfs_super_write(): the superblock is written at offset 0
sqfs_super_write(size) == IF size < SuperSize THEN SuperSize ELSE size

\* padd_sqfs(file, size, blocksize): zero bytes up to a multiple of blocksize
padd_sqfs(cur, size, blocksize) ==
    IF size % blocksize = 0 THEN cur
    ELSE cur + (blocksize - (size % blocksize))

Others == <<optVars, tarVars, serVars, pathVars, getoptVars>>

\* a step that fails jumps to a cleanup label; all of them end in
\* `return status`
GotoOut(s) ==
    /\ pc' = "out"
    /\ failedStep' = s
    /\ UNCHANGED <<status, exitCode, sinkSize, bytes_used, sizeBeforePad,
                   sections>>

\* a step that writes nothing to the image
PlainStep(s) ==
    /\ pc = s
    /\ \E ok \in BOOLEAN :
         IF ok
         THEN /\ pc' = NextStep(s)
              /\ UNCHANGED <<status, exitCode, failedStep, sinkSize,
                             bytes_used, sizeBeforePad, sections>>
         ELSE GotoOut(s)
    /\ UNCHANGED Others

\* a step that appends a section of the image
SectionStep(s) ==
    /\ pc = s
    /\ sections' = Append(sections, s)
    /\ \E ok \in BOOLEAN, n \in TableSizes :
         IF ok
         THEN /\ pc' = NextStep(s)
              /\ sinkSize' = sinkSize + n
              /\ UNCHANGED <<status, exitCode, failedStep, bytes_used,
                             sizeBeforePad>>
         ELSE /\ pc' = "out"
              /\ failedStep' = s
              /\ UNCHANGED <<status, exitCode, sinkSize, bytes_used,
                             sizeBeforePad>>
    /\ UNCHANGED Others

\* an early `return EXIT_FAILURE`, lines 408-417
EarlyStep(s) ==
    /\ pc = s
    /\ \E ok \in BOOLEAN :
         IF ok
         THEN /\ pc' = NextStep(s)
              /\ UNCHANGED <<exitCode, failedStep>>
         ELSE /\ pc' = "exited"
              /\ exitCode' = EXIT_FAILURE
              /\ failedStep' = s
    /\ UNCHANGED <<status, sinkSize, bytes_used, sizeBeforePad, sections>>
    /\ UNCHANGED Others

CfgInit          == EarlyStep("cfg_init")           \* lines 408-411
OpenFile         == EarlyStep("open_file")          \* lines 413-417
FstreeInit       == PlainStep("fstree_init")        \* lines 419-420
CompressorCreate == PlainStep("compressor_create")  \* lines 422-426
SuperInit        == PlainStep("super_init")         \* lines 428-429

\* lines 431-432
SuperWrite ==
    /\ pc = "super_write"
    /\ \E ok \in BOOLEAN :
         IF ok
         THEN /\ pc' = NextStep("super_write")
              /\ sinkSize' = sqfs_super_write(sinkSize)
              /\ UNCHANGED <<status, exitCode, failedStep, bytes_used,
                             sizeBeforePad, sections>>
         ELSE GotoOut("super_write")
    /\ UNCHANGED Others

\* lines 434-439
WriteOptions ==
    /\ pc = "write_options"
    /\ \E ret \in {-1, 0, 1}, n \in TableSizes :
         IF ret < 0 THEN GotoOut("write_options")
         ELSE /\ pc' = NextStep("write_options")
              /\ sinkSize' = IF ret > 0 THEN sinkSize + n ELSE sinkSize
              /\ UNCHANGED <<status, exitCode, failedStep, bytes_used,
                             sizeBeforePad, sections>>
    /\ UNCHANGED Others

DataWriterCreate == PlainStep("data_writer_create") \* lines 441-444
IdTableCreate    == PlainStep("id_table_create")    \* lines 446-448

\* lines 453-454: the data blocks and fragments reach the image
DataWriterSync ==
    /\ pc = "data_writer_sync"
    /\ sections' = Append(sections, "data_writer_sync")
    /\ \E ok \in BOOLEAN :
         IF ok
         THEN /\ pc' = NextStep("data_writer_sync")
              /\ sinkSize' = sinkSize + SeqSum(packed, LAMBDA e : e.bytes)
              /\ UNCHANGED <<status, exitCode, failedStep, bytes_used,
                             sizeBeforePad>>
         ELSE /\ pc' = "out"
              /\ failedStep' = "data_writer_sync"
              /\ UNCHANGED <<status, exitCode, sinkSize, bytes_used,
                             sizeBeforePad>>
    /\ UNCHANGED Others

GenInodeTable     == PlainStep("gen_inode_table")    \* lines 456-462
SerializeFstree   == SectionStep("serialize_fstree") \* lines 464-465
WriteFragmentTable == SectionStep("fragment_table")  \* lines 467-468
WriteExportTable  == SectionStep("export_table")     \* lines 470-473
WriteIdTable      == SectionStep("id_table")         \* lines 475-476
WriteXattrTable   == SectionStep("xattr_table")      \* lines 478-479

\* line 481
GetSize ==
    /\ pc = "get_size"
    /\ bytes_used' = sinkSize
    /\ pc' = NextStep("get_size")
    /\ UNCHANGED <<status, exitCode, failedStep, sinkSize, sizeBeforePad,
                   sections>>
    /\ UNCHANGED Others

\* lines 483-484
SuperRewrite ==
    /\ pc = "super_rewrite"
    /\ \E ok \in BOOLEAN :
         IF ok
         THEN /\ pc' = NextStep("super_rewrite")
              /\ sinkSize' = sqfs_super_write(sinkSize)
              /\ UNCHANGED <<status, exitCode, failedStep, bytes_used,
                             sizeBeforePad, sections>>
         ELSE GotoOut("super_rewrite")
    /\ UNCHANGED Others

\* lines 486-487
Padd ==
    /\ pc = "padd"
    /\ \E ok \in BOOLEAN :
         IF ok
         THEN /\ pc' = NextStep("padd")
              /\ sizeBeforePad' = sinkSize
              /\ sinkSize' = padd_sqfs(sinkSize, bytes_used, devblksize)
              /\ UNCHANGED <<status, exitCode, failedStep, bytes_used,
                             sections>>
         ELSE GotoOut("padd")
    /\ UNCHANGED Others

\* lines 489-494
Success ==
    /\ pc = "success"
    /\ status' = EXIT_SUCCESS
    /\ pc' = "out"
    /\ UNCHANGED <<exitCode, failedStep, sinkSize, bytes_used, sizeBeforePad,
                   sections>>
    /\ UNCHANGED Others

\* lines 495-505: the cleanup labels and `return status`
Return ==
    /\ pc = "out"
    /\ exitCode' = status
    /\ pc' = "exited"
    /\ UNCHANGED <<status, failedStep, sinkSize, bytes_used, sizeBeforePad,
                   sections>>
    /\ UNCHANGED Others

\* line 397: the initial value of `status`
StatusInit == EXIT_SUCCESS

SerIdle ==
    /\ spc = "idle" /\ tree = <<>> /\ user_ptr = <<>> /\ initPtr = <<>>
    /\ inode_ref = <<>> /\ stack = <<>> /\ imBlock = 0 /\ imOffset = 0
    /\ inodeLog = <<>> /\ dirLog = <<>> /\ callLog = <<>>
    /\ serRet = "running"
    /\ root_inode_ref = 0 /\ inode_table_start = 0
    /\ directory_table_start = 0 /\ serSink = 0 /\ imFlushed = FALSE
    /\ dmFlushed = FALSE /\ dmBuffered = 0

PathIdle ==
    /\ windows = FALSE /\ pstr = <<>> /\ pstart = 1
    /\ pres = [fn |-> "none", at |-> 0]

\* getopt.c lines 15-17: the statics before the first call
GetoptStatics ==
    /\ optind = 1
    /\ current = [arg |-> 0, at |-> 1]
    /\ optarg = [arg |-> 0, at |-> 0]

GetoptIdle ==
    /\ api = "none" /\ argv = <<>> /\ GetoptStatics
    /\ optret = "none" /\ optindBefore = 1
    /\ currentBefore = [arg |-> 0, at |-> 1] /\ scanIndex = -1

MainIdle ==
    /\ status = StatusInit /\ exitCode = -1 /\ failedStep = ""
    /\ bytes_used = 0 /\ sizeBeforePad = -1 /\ sections = <<>>

TarIdle ==
    /\ pos = 0 /\ nodes = <<>> /\ packed = <<>> /\ reclog = <<>>
    /\ tarRet = 2

Init ==
    /\ dont_skip \in BOOLEAN /\ no_xattr \in BOOLEAN
    /\ exportable \in BOOLEAN /\ devblksize \in {1024, 4096}
    /\ pc = "cfg_init" /\ sinkSize = 0
    /\ MainIdle /\ TarIdle
    /\ stream \in SeqsUpTo(MainRecords, MaxMainRecords)
    /\ SerIdle /\ PathIdle /\ GetoptIdle

Next ==
    \/ CfgInit \/ OpenFile \/ FstreeInit \/ CompressorCreate \/ SuperInit
    \/ SuperWrite \/ WriteOptions \/ DataWriterCreate \/ IdTableCreate
    \/ TarEndOfArchive \/ TarReadError \/ TarAbortOnAnomaly \/ TarSkip
    \/ TarPack
    \/ DataWriterSync \/ GenInodeTable \/ SerializeFstree
    \/ WriteFragmentTable \/ WriteExportTable \/ WriteIdTable
    \/ WriteXattrTable \/ GetSize \/ SuperRewrite \/ Padd \/ Success
    \/ Return

Spec == Init /\ [][Next]_vars

(***************************************************************************)
(* process_tar_ball() alone: main has reached line 450.                    *)
(***************************************************************************)
InitTar ==
    /\ dont_skip \in BOOLEAN /\ no_xattr \in BOOLEAN
    /\ exportable = FALSE /\ devblksize = 4096
    /\ pc = "process_tar_ball" /\ sinkSize = SuperSize
    /\ MainIdle /\ TarIdle
    /\ stream \in SeqsUpTo(Records, MaxRecords)
    /\ SerIdle /\ PathIdle /\ GetoptIdle

NextTar ==
    TarEndOfArchive \/ TarReadError \/ TarAbortOnAnomaly \/ TarSkip \/ TarPack

SpecTar == InitTar /\ [][NextTar]_vars

(***************************************************************************)
(* lib/common/serialize_fstree.c.  A tree is a function from node ids to   *)
(* [parent, kind]; node 1 is the root (parent 0); the children of a        *)
(* directory are in sibling order by ascending id.                         *)
(***************************************************************************)
Kinds == {"dir", "reg", "other"}
Root  == 1

Trees ==
    UNION { { t \in [1..n -> [parent : 0..(n - 1), kind : Kinds]] :
                /\ t[1] = [parent |-> 0, kind |-> "dir"]
                /\ \A i \in 2..n : /\ t[i].parent \in 1..(i - 1)
                                   /\ t[t[i].parent].kind = "dir" }
            : n \in 1..MaxNodes }

NodeIds == DOMAIN tree

\* node->data.dir.children, following ->next
RECURSIVE ChildrenFrom(_, _)
ChildrenFrom(d, i) ==
    IF i > Len(tree) THEN <<>>
    ELSE IF tree[i].parent = d THEN <<i>> \o ChildrenFrom(d, i + 1)
    ELSE ChildrenFrom(d, i + 1)

Children(d) == ChildrenFrom(d, 1)

S_ISDIR(n) == tree[n].kind = "dir"
S_ISREG(n) == tree[n].kind = "reg"

\* bytes an inode of each kind takes in the inode table
InodeSize(n) ==
    CASE tree[n].kind = "dir" -> 32
      [] tree[n].kind = "reg" -> 5000
      [] OTHER                -> 24

\* bytes one directory listing takes in the directory table
DirListSize(n) == 12 + 16 * Len(Children(n))

MetaHeader == 2

\* sqfs_meta_writer_get_position() packed as at line 146
inode_position(block, offset) == block * 65536 + offset

\* the library calls of serialize_tree_node that may fail
SerFailPoints == {"none", "dir_writer", "inode_alloc", "uid_index",
                  "gid_index", "write_inode"}

\* line 119 left out
clear_user_ptr_forgotten(n) == user_ptr

\* line 119
clear_user_ptr(n) == [user_ptr EXCEPT ![n] = FALSE]

\* write_dir_entries(), lines 61-104: the entries it hands to the directory
\* writer, each with the child's inode_ref as it is now
dir_entries(n) ==
    LET ch == Children(n)
    IN  [k \in 1..Len(ch) |->
            [dir |-> n, child |-> ch[k], ref |-> inode_ref[ch[k]],
             at |-> Len(inodeLog)]]

\* serialize_tree_node(), lines 106-152: the state it leaves
serialize_tree_node(n, fail) ==
    LET isdir   == S_ISDIR(n)
        isreg   == S_ISREG(n)
        \* lines 114-124
        inodeOk == IF isdir THEN fail # "dir_writer"
                   ELSE IF isreg THEN user_ptr[n]
                   ELSE fail # "inode_alloc"
        nullRet == IF isdir \/ isreg THEN "SQFS_ERROR_INTERNAL"
                   ELSE "SQFS_ERROR_ALLOC"
        ptrs    == IF isreg THEN clear_user_ptr(n) ELSE user_ptr
        dlog    == IF isdir THEN dirLog \o dir_entries(n) ELSE dirLog
        dbuf    == IF isdir /\ inodeOk THEN dmBuffered + DirListSize(n)
                   ELSE dmBuffered
        same    == [ret |-> "OK", user_ptr |-> ptrs, dirLog |-> dlog,
                    dmBuffered |-> dbuf, inode_ref |-> inode_ref,
                    inodeLog |-> inodeLog, imBlock |-> imBlock,
                    imOffset |-> imOffset, serSink |-> serSink]
        ref     == inode_position(imBlock, imOffset)
        end     == imOffset + InodeSize(n)
        full    == end >= MetaBlockSize
    IN  IF ~inodeOk THEN [same EXCEPT !.ret = nullRet]
        \* lines 135-143
        ELSE IF fail \in {"uid_index", "gid_index"}
        THEN [same EXCEPT !.ret = "SQFS_ERROR_ALLOC"]
        \* lines 145-148
        ELSE IF fail = "write_inode"
        THEN [same EXCEPT !.ret = "SQFS_ERROR_IO",
                          !.inode_ref = [inode_ref EXCEPT ![n] = ref]]
        ELSE [same EXCEPT
                 !.inode_ref = [inode_ref EXCEPT ![n] = ref],
                 !.inodeLog = Append(inodeLog, [node |-> n, ref |-> ref]),
                 !.imBlock = IF full THEN imBlock + MetaHeader + MetaBlockSize
                             ELSE imBlock,
                 !.imOffset = IF full THEN end - MetaBlockSize ELSE end,
                 !.serSink = IF full THEN serSink + MetaHeader + MetaBlockSize
                             ELSE serSink]

\* lines 161-166
has_subdirs(d) == \E k \in 1..Len(Children(d)) : S_ISDIR(Children(d)[k])

\* the children inodes written before the sub-directories are entered
loops_emit_first(d) == << "emit", "recurse" >>

\* serialize_recursive(), lines 168-182: the loops it runs, in order
loops(d) == IF has_subdirs(d) THEN << "recurse", "emit" >> ELSE << "emit" >>

Frame(d) == [node |-> d, loop |-> 1, it |-> 1]

Top == stack[Len(stack)]
Pop == SubSeq(stack, 1, Len(stack) - 1)
SetTop(f) == [stack EXCEPT ![Len(stack)] = f]

TopLoop == IF Top.loop > Len(loops(Top.node)) THEN "return"
           ELSE loops(Top.node)[Top.loop]

NotSer == <<optVars, mainVars, tarVars, pathVars, getoptVars>>

ApplyNode(r) ==
    /\ user_ptr' = r.user_ptr /\ dirLog' = r.dirLog
    /\ dmBuffered' = r.dmBuffered /\ inode_ref' = r.inode_ref
    /\ inodeLog' = r.inodeLog /\ imBlock' = r.imBlock
    /\ imOffset' = r.imOffset /\ serSink' = r.serSink

\* the error path of sqfs_serialize_fstree, lines 219-222
SerFail(ret) == spc' = "done" /\ serRet' = ret /\ stack' = <<>>

\* lines 191-197
SerBegin ==
    /\ spc = "start"
    /\ inode_table_start' = serSink
    /\ IF S_ISDIR(Root)
       THEN spc' = "recursive" /\ stack' = << Frame(Root) >>
       ELSE spc' = "root" /\ stack' = <<>>
    /\ UNCHANGED <<tree, user_ptr, initPtr, inode_ref, imBlock, imOffset,
                   inodeLog, dirLog, callLog, serRet, root_inode_ref,
                   directory_table_start, serSink, imFlushed, dmFlushed,
                   dmBuffered>>
    /\ UNCHANGED NotSer

\* lines 169-176: the loop reaches a sub-directory and calls itself
RecurseInto ==
    /\ spc = "recursive" /\ TopLoop = "recurse"
    /\ LET ch == Children(Top.node) IN
       /\ Top.it <= Len(ch)
       /\ IF S_ISDIR(ch[Top.it])
          THEN stack' = Append(SetTop([Top EXCEPT !.it = @ + 1]),
                               Frame(ch[Top.it]))
          ELSE stack' = SetTop([Top EXCEPT !.it = @ + 1])
    /\ UNCHANGED <<spc, tree, user_ptr, initPtr, inode_ref, imBlock,
                   imOffset, inodeLog, dirLog, callLog, serRet,
                   root_inode_ref, inode_table_start, directory_table_start,
                   serSink, imFlushed, dmFlushed, dmBuffered>>
    /\ UNCHANGED NotSer

\* a loop of serialize_recursive ends, or the function returns 0
LoopEnd ==
    /\ spc = "recursive"
    /\ \/ /\ TopLoop # "return"
          /\ Top.it > Len(Children(Top.node))
          /\ stack' = SetTop([Top EXCEPT !.loop = @ + 1, !.it = 1])
          /\ spc' = spc
       \/ /\ TopLoop = "return"
          /\ stack' = Pop
          /\ spc' = IF Len(stack) = 1 THEN "root" ELSE spc
    /\ UNCHANGED <<tree, user_ptr, initPtr, inode_ref, imBlock, imOffset,
                   inodeLog, dirLog, callLog, serRet, root_inode_ref,
                   inode_table_start, directory_table_start, serSink,
                   imFlushed, dmFlushed, dmBuffered>>
    /\ UNCHANGED NotSer

\* lines 178-182: serialize_tree_node on the next child
EmitChild ==
    /\ spc = "recursive" /\ TopLoop = "emit"
    /\ Top.it <= Len(Children(Top.node))
    /\ \E fail \in SerFailPoints :
         LET n == Children(Top.node)[Top.it]
             r == serialize_tree_node(n, fail)
         IN  /\ ApplyNode(r)
             /\ callLog' = Append(callLog, n)
             /\ IF r.ret # "OK" THEN SerFail(r.ret)
                ELSE /\ stack' = SetTop([Top EXCEPT !.it = @ + 1])
                     /\ UNCHANGED <<spc, serRet>>
    /\ UNCHANGED <<tree, initPtr, root_inode_ref, inode_table_start,
                   directory_table_start, imFlushed, dmFlushed>>
    /\ UNCHANGED NotSer

\* lines 199-201
EmitRoot ==
    /\ spc = "root"
    /\ \E fail \in SerFailPoints :
         LET r == serialize_tree_node(Root, fail)
         IN  /\ ApplyNode(r)
             /\ callLog' = Append(callLog, Root)
             /\ IF r.ret # "OK" THEN SerFail(r.ret)
                ELSE spc' = "flush_im" /\ UNCHANGED <<stack, serRet>>
    /\ UNCHANGED <<tree, initPtr, root_inode_ref, inode_table_start,
                   directory_table_start, imFlushed, dmFlushed>>
    /\ UNCHANGED NotSer

\* lines 203-205: the last inode block goes to the file
FlushIm ==
    /\ spc = "flush_im"
    /\ \E ok \in BOOLEAN :
         IF ok
         THEN /\ spc' = "flush_dm"
              /\ imFlushed' = TRUE
              /\ serSink' = IF imOffset > 0
                            THEN serSink + MetaHeader + imOffset ELSE serSink
              /\ imBlock' = IF imOffset > 0
                            THEN imBlock + MetaHeader + imOffset ELSE imBlock
              /\ imOffset' = 0
              /\ UNCHANGED <<serRet, stack>>
         ELSE /\ SerFail("SQFS_ERROR_IO")
              /\ UNCHANGED <<imFlushed, serSink, imBlock, imOffset>>
    /\ UNCHANGED <<tree, user_ptr, initPtr, inode_ref, inodeLog, dirLog,
                   callLog, root_inode_ref, inode_table_start,
                   directory_table_start, dmFlushed, dmBuffered>>
    /\ UNCHANGED NotSer

\* lines 207-209: the directory writer keeps its blocks in memory
FlushDm ==
    /\ spc = "flush_dm"
    /\ \E ok \in BOOLEAN :
         IF ok
         THEN /\ spc' = "table_start"
              /\ dmFlushed' = TRUE
              /\ dmBuffered' = IF dmBuffered > 0 THEN dmBuffered + MetaHeader
                               ELSE dmBuffered
              /\ UNCHANGED <<serRet, stack>>
         ELSE /\ SerFail("SQFS_ERROR_IO")
              /\ UNCHANGED <<dmFlushed, dmBuffered>>
    /\ UNCHANGED <<tree, user_ptr, initPtr, inode_ref, imBlock, imOffset,
                   inodeLog, dirLog, callLog, root_inode_ref,
                   inode_table_start, directory_table_start, serSink,
                   imFlushed>>
    /\ UNCHANGED NotSer

\* directory_table_start taken as if line 212 came after line 214
TableStart_AfterWrite ==
    /\ spc = "table_start"
    /\ root_inode_ref' = inode_ref[Root]
    /\ directory_table_start' = serSink + dmBuffered
    /\ spc' = "write_dm"
    /\ UNCHANGED <<tree, user_ptr, initPtr, inode_ref, stack, imBlock,
                   imOffset, inodeLog, dirLog, callLog, serRet,
                   inode_table_start, serSink, imFlushed, dmFlushed,
                   dmBuffered>>
    /\ UNCHANGED <<optVars, mainVars, tarVars, pathVars, getoptVars>>

\* lines 211-212
TableStart ==
    /\ spc = "table_start"
    /\ root_inode_ref' = inode_ref[Root]
    /\ directory_table_start' = serSink
    /\ spc' = "write_dm"
    /\ UNCHANGED <<tree, user_ptr, initPtr, inode_ref, stack, imBlock,
                   imOffset, inodeLog, dirLog, callLog, serRet,
                   inode_table_start, serSink, imFlushed, dmFlushed,
                   dmBuffered>>
    /\ UNCHANGED NotSer

\* lines 214-218
WriteDm ==
    /\ spc = "write_dm"
    /\ \E ok \in BOOLEAN :
         IF ok
         THEN /\ spc' = "done" /\ serRet' = "OK"
              /\ serSink' = serSink + dmBuffered
              /\ UNCHANGED stack
         ELSE /\ SerFail("SQFS_ERROR_IO")
              /\ UNCHANGED serSink
    /\ UNCHANGED <<tree, user_ptr, initPtr, inode_ref, imBlock, imOffset,
                   inodeLog, dirLog, callLog, root_inode_ref,
                   inode_table_start, directory_table_start, imFlushed,
                   dmFlushed, dmBuffered>>
    /\ UNCHANGED NotSer

InitSer ==
    /\ dont_skip = FALSE /\ no_xattr = FALSE /\ exportable = FALSE
    /\ devblksize = 4096
    /\ pc = "serialize_fstree" /\ sinkSize = SuperSize
    /\ MainIdle /\ TarIdle /\ stream = <<>> /\ PathIdle /\ GetoptIdle
    /\ tree \in Trees
    /\ user_ptr \in [DOMAIN tree -> BOOLEAN]
    /\ \A n \in DOMAIN tree : user_ptr[n] => tree[n].kind = "reg"
    /\ initPtr = user_ptr
    /\ inode_ref = [n \in DOMAIN tree |-> 0]
    /\ spc = "start" /\ stack = <<>> /\ imBlock = 0 /\ imOffset = 0
    /\ inodeLog = <<>> /\ dirLog = <<>> /\ callLog = <<>>
    /\ serRet = "running"
    /\ root_inode_ref = 0 /\ inode_table_start = 0
    /\ directory_table_start = 0 /\ serSink = SuperSize
    /\ imFlushed = FALSE /\ dmFlushed = FALSE /\ dmBuffered = 0

NextSer ==
    \/ SerBegin \/ RecurseInto \/ LoopEnd \/ EmitChild \/ EmitRoot
    \/ FlushIm \/ FlushDm \/ TableStart \/ WriteDm

SpecSer == InitSer /\ [][NextSer]_vars

(***************************************************************************)
(* lib/compat/path_sep.c.  A C string is the sequence of its characters;   *)
(* position Len + 1 is the terminating NUL.                                *)
(***************************************************************************)
Chars   == {"/", "\\", "a"}
Strings == SeqsUpTo(Chars, MaxLen)

\* lines 5-9
is_windows_path_sep(c) == IF windows THEN c = "\\" ELSE FALSE

\* line 11
is_path_sep(c) == c = "/" /\ is_windows_path_sep(c)

\* lines 13-26
RECURSIVE skip_path_seps(_, _)
skip_path_seps(str, cur) ==
    IF cur > Len(str) THEN cur
    ELSE IF is_path_sep(str[cur]) THEN skip_path_seps(str, cur + 1)
    ELSE cur

\* lines 28-39
RECURSIVE next_path_sep(_, _)
next_path_sep(str, cur) ==
    IF cur > Len(str) THEN cur
    ELSE IF is_path_sep(str[cur]) THEN cur
    ELSE next_path_sep(str, cur + 1)

NotPath == <<optVars, mainVars, tarVars, serVars, getoptVars>>

CallSkipPathSeps ==
    /\ \E str \in Strings : \E in \in 1..(Len(str) + 1) :
         /\ pstr' = str /\ pstart' = in
         /\ pres' = [fn |-> "skip_path_seps", at |-> skip_path_seps(str, in)]
    /\ UNCHANGED windows
    /\ UNCHANGED NotPath

CallNextPathSep ==
    /\ \E str \in Strings : \E in \in 1..(Len(str) + 1) :
         /\ pstr' = str /\ pstart' = in
         /\ pres' = [fn |-> "next_path_sep", at |-> next_path_sep(str, in)]
    /\ UNCHANGED windows
    /\ UNCHANGED NotPath

InitPath ==
    /\ dont_skip = FALSE /\ no_xattr = FALSE /\ exportable = FALSE
    /\ devblksize = 4096
    /\ pc = "process_args" /\ sinkSize = 0
    /\ MainIdle /\ TarIdle /\ stream = <<>> /\ SerIdle /\ GetoptIdle
    /\ windows \in BOOLEAN
    /\ pstr = <<>> /\ pstart = 1 /\ pres = [fn |-> "none", at |-> 0]

NextPath == CallSkipPathSeps \/ CallNextPathSep

SpecPath == InitPath /\ [][NextPath]_vars

(***************************************************************************)
(* lib/compat/getopt.c and lib/compat/getopt_long.c, called in a loop with *)
(* the tables of tar/tar2sqfs.c.  A string is a sequence of characters;    *)
(* the position behind its last character holds NUL.  argv[0] is left out: *)
(* argv[k] of the model is argv[k] of the program for k >= 1.              *)
(***************************************************************************)
NUL == "NUL"

CharAt(str, i) == IF i \in 1..Len(str) THEN str[i] ELSE NUL

\* tar2sqfs.c line 49
short_opts ==
    <<"c", ":", "b", ":", "B", ":", "d", ":", "X", ":", "j", ":", "Q", ":",
  "s", "x", "e", "k", "f", "q", "h", "V">>

required_argument == TRUE
no_argument == FALSE

Opt(name, has_arg, val) == [name |-> name, has_arg |-> has_arg, val |-> val]

\* tar2sqfs.c lines 31-47: fifteen entries, none with a NULL name
long_opts ==
 <<
    Opt(<<"c", "o", "m", "p", "r", "e", "s", "s", "o", "r">>,
        required_argument, "c"),
    Opt(<<"b", "l", "o", "c", "k", "-", "s", "i", "z", "e">>,
        required_argument, "b"),
    Opt(<<"d", "e", "v", "-", "b", "l", "o", "c", "k", "-", "s", "i", "z",
          "e">>,
        required_argument, "B"),
    Opt(<<"d", "e", "f", "a", "u", "l", "t", "s">>,
        required_argument, "d"),
    Opt(<<"n", "u", "m", "-", "j", "o", "b", "s">>,
        required_argument, "j"),
    Opt(<<"q", "u", "e", "u", "e", "-", "b", "a", "c", "k", "l", "o", "g">>,
        required_argument, "Q"),
    Opt(<<"c", "o", "m", "p", "-", "e", "x", "t", "r", "a">>,
        required_argument, "X"),
    Opt(<<"n", "o", "-", "s", "k", "i", "p">>,
        no_argument, "s"),
    Opt(<<"n", "o", "-", "x", "a", "t", "t", "r">>,
        no_argument, "x"),
    Opt(<<"k", "e", "e", "p", "-", "t", "i", "m", "e">>,
        no_argument, "k"),
    Opt(<<"e", "x", "p", "o", "r", "t", "a", "b", "l", "e">>,
        no_argument, "e"),
    Opt(<<"f", "o", "r", "c", "e">>,
        no_argument, "f"),
    Opt(<<"q", "u", "i", "e", "t">>,
        no_argument, "q"),
    Opt(<<"h", "e", "l", "p">>,
        no_argument, "h"),
    Opt(<<"v", "e", "r", "s", "i", "o", "n">>,
        no_argument, "V")
 >>

\* the arguments the command lines are made of
ArgPool ==
    {
      <<"-", "s">>,
      <<"-", "x", "e">>,
      <<"-", "z">>,
      <<"-", "c">>,
      <<"-", "c", "x", "z">>,
      <<"-", "-">>,
      <<"-">>,
      <<"i", "m", "g">>,
      <<"-", "-", "f", "o", "r", "c", "e">>,
      <<"-", "-", "f", "o", "r", "c", "e", "=", "1">>,
      <<"-", "-", "c", "o", "m", "p", "r", "e", "s", "s", "o", "r">>,
      <<"-", "-", "c", "o", "m", "p", "r", "e", "s", "s", "o", "r", "=",
  "x", "z">>,
      <<"-", "-", "b", "o", "g", "u", "s">>
    }

argc == Len(argv) + 1

NullPtr == [arg |-> 0, at |-> 0]
EmptyString == [arg |-> 0, at |-> 1]

\* *ptr for a pointer into an argument (or into "")
Deref(ptr) == IF ptr.arg = 0 THEN NUL ELSE CharAt(argv[ptr.arg], ptr.at)

\* strchr(str, c) for c # NUL: the index of the first c in str, 0 for NULL
strchr(str, c) ==
    IF \E k \in 1..Len(str) : str[k] = c
    THEN CHOOSE k \in 1..Len(str) :
            str[k] = c /\ \A j \in 1..(k - 1) : str[j] # c
    ELSE 0

\* getopt.c lines 38-68, entered with `current` = cur pointing at a character
getopt_char(cur, optstr) ==
    LET optchr == Deref(cur)
        nxt    == [arg |-> cur.arg, at |-> cur.at + 1]
        ptr    == strchr(optstr, optchr)
    IN  IF optchr = ":" \/ ptr = 0
        THEN \* fail_unknown
             [ret |-> "?", optind |-> optind, current |-> nxt,
              optarg |-> optarg]
        ELSE IF CharAt(optstr, ptr + 1) = ":"
        THEN IF Deref(nxt) # NUL
             THEN [ret |-> optchr, optind |-> optind + 1,
                   current |-> EmptyString, optarg |-> nxt]
             ELSE IF optind + 1 >= argc
             THEN \* fail_arg
                  [ret |-> "?", optind |-> optind + 1, current |-> nxt,
                   optarg |-> optarg]
             ELSE [ret |-> optchr, optind |-> optind + 2,
                   current |-> EmptyString,
                   optarg |-> [arg |-> optind + 1, at |-> 1]]
        ELSE [ret |-> optchr,
              optind |-> IF Deref(nxt) = NUL THEN optind + 1 ELSE optind,
              current |-> nxt, optarg |-> NullPtr]

\* getopt.c lines 19-69
getopt(optstr) ==
    LET same == [ret |-> "-1", optind |-> optind, current |-> current,
                 optarg |-> optarg]
    IN  IF Deref(current) = NUL
        THEN IF optind >= argc \/ CharAt(argv[optind], 1) # "-"
             THEN same
             ELSE IF /\ CharAt(argv[optind], 2) = "-"
                     /\ CharAt(argv[optind], 3) = NUL
             THEN [same EXCEPT !.optind = optind + 1]
             ELSE IF CharAt(argv[optind], 2) = NUL
             THEN same
             ELSE getopt_char([arg |-> optind, at |-> 2], optstr)
        ELSE getopt_char(current, optstr)

\* getopt_long.c lines 25-26, negated: argv[optind] is "--" and more
LongForm ==
    /\ optind < argc
    /\ CharAt(argv[optind], 1) = "-"
    /\ CharAt(argv[optind], 2) = "-"
    /\ CharAt(argv[optind], 3) # NUL

\* getopt_long.c lines 30-33: the length of the name behind "--"
name_len(str) ==
    LET stops == { k \in 3..(Len(str) + 1) : CharAt(str, k) \in {NUL, "="} }
    IN  (CHOOSE k \in stops : \A j \in stops : k <= j) - 3

\* getopt_long.c lines 36-40: strncmp(name, ptr, len) == 0 and
\* name[len] == '\0'
entry_matches(e, str, len) ==
    /\ \A k \in 1..len : CharAt(e.name, k) = CharAt(str, 2 + k)
    /\ CharAt(e.name, len + 1) = NUL

\* getopt_long.c lines 35-41 inside the table: the index (from 0) of the
\* first entry that matches, the number of entries when none does
scan_table(longopts, str) ==
    LET hits == { i \in 1..Len(longopts) :
                    entry_matches(longopts[i], str, name_len(str)) }
    IN  IF hits = {} THEN Len(longopts)
        ELSE (CHOOSE i \in hits : \A j \in hits : i <= j) - 1

\* getopt_long.c lines 46-70 with longopts[i] = e
long_option(e) ==
    LET len == name_len(argv[optind])
    IN  IF CharAt(argv[optind], 3 + len) = "="
        THEN IF ~e.has_arg
             THEN \* fail_arg
                  [ret |-> "?", optind |-> optind, current |-> current,
                   optarg |-> NullPtr]
             ELSE [ret |-> e.val, optind |-> optind + 1,
                   current |-> current,
                   optarg |-> [arg |-> optind, at |-> 3 + len + 1]]
        ELSE IF e.has_arg
        THEN IF optind + 1 >= argc
             THEN \* fail_no_arg
                  [ret |-> "?", optind |-> optind + 1, current |-> current,
                   optarg |-> NullPtr]
             ELSE [ret |-> e.val, optind |-> optind + 2,
                   current |-> current,
                   optarg |-> [arg |-> optind + 1, at |-> 1]]
        ELSE [ret |-> e.val, optind |-> optind + 1, current |-> current,
              optarg |-> NullPtr]

\* getopt_long.c lines 43-44, 60-62: the entry read has a NULL name
long_unknown ==
    [ret |-> "?", optind |-> optind, current |-> current,
     optarg |-> NullPtr]

NotGetopt == <<optVars, mainVars, tarVars, serVars, pathVars>>

\* the loop goes on until a call returns -1 (or the process dies)
LoopRunning == optret \notin {"-1", "SIGSEGV"}

\* a call returns r, having read longopts[] up to index scan
OptReturn(r, scan) ==
    /\ optind' = r.optind /\ current' = r.current /\ optarg' = r.optarg
    /\ optret' = r.ret
    /\ optindBefore' = optind /\ currentBefore' = current
    /\ scanIndex' = scan
    /\ UNCHANGED <<api, argv>>
    /\ UNCHANGED NotGetopt

\* getopt.c lines 19-69, called by the loop
CallGetopt ==
    /\ api = "getopt" /\ LoopRunning
    /\ OptReturn(getopt(short_opts), -1)

\* getopt_long.c lines 25-27: not a long option, left to getopt
CallGetoptLongShort ==
    /\ api = "getopt_long" /\ LoopRunning
    /\ ~LongForm
    /\ OptReturn(getopt(short_opts), -1)

\* getopt_long.c lines 29-59: the name is found in the table
CallGetoptLongFound ==
    /\ api = "getopt_long" /\ LoopRunning
    /\ LongForm
    /\ LET i == scan_table(long_opts, argv[optind])
       IN  /\ i < Len(long_opts)
           /\ OptReturn(long_option(long_opts[i + 1]), i)

\* getopt_long.c lines 35-44 when no entry matches: the loop reads
\* longopts[15].name, behind the array.  What is there is not defined: the
\* objects that follow may look like entries that do not match (k of them
\* are passed), then one has a NULL name, or one matches, or the read faults.
CallGetoptLongPastEnd ==
    /\ api = "getopt_long" /\ LoopRunning
    /\ LongForm
    /\ scan_table(long_opts, argv[optind]) = Len(long_opts)
    /\ \E k \in 0..MaxOverrun :
         LET i == Len(long_opts) + k
         IN  \/ OptReturn(long_unknown, i)
             \/ \E h \in BOOLEAN :
                  OptReturn(long_option(Opt(<<>>, h, "garbage")), i)
             \/ OptReturn([ret |-> "SIGSEGV", optind |-> optind,
                           current |-> current, optarg |-> NullPtr], i)

InitOpt ==
    /\ dont_skip = FALSE /\ no_xattr = FALSE /\ exportable = FALSE
    /\ devblksize = 4096
    /\ pc = "process_args" /\ sinkSize = 0
    /\ MainIdle /\ TarIdle /\ stream = <<>> /\ SerIdle /\ PathIdle
    /\ api \in {"getopt", "getopt_long"}
    /\ argv \in SeqsUpTo(ArgPool, MaxArgs)
    /\ GetoptStatics
    /\ optret = "none" /\ optindBefore = 1
    /\ currentBefore = EmptyString /\ scanIndex = -1

NextOpt ==
    \/ CallGetopt \/ CallGetoptLongShort \/ CallGetoptLongFound
    \/ CallGetoptLongPastEnd

SpecOpt == InitOpt /\ [][NextOpt]_vars

(***************************************************************************)
(* Properties of main()                                                    *)
(***************************************************************************)
Last(q) == q[Len(q)]
Range(q) == { q[i] : i \in 1..Len(q) }

\* the steps of the pipeline in the order main performs them
PipelineOrder ==
    << "process_tar_ball", "data_writer_sync", "gen_inode_table",
       "serialize_fstree", "fragment_table", "export_table", "id_table",
       "xattr_table", "super_rewrite", "padd" >>

\* the sections of the image in the order they are to appear
ExpectedOrder ==
    << "data_writer_sync", "serialize_fstree", "fragment_table" >>
    \o (IF exportable THEN << "export_table" >> ELSE <<>>)
    \o << "id_table", "xattr_table" >>

IndexOf(q, x) == CHOOSE i \in 1..Len(q) : q[i] = x

\* the sections begun when step f is the one that failed
SectionsThrough(f) ==
    IF f \notin Range(PipelineOrder) THEN <<>>
    ELSE SelectSeq(SubSeq(PipelineOrder, 1, IndexOf(PipelineOrder, f)),
                   LAMBDA x : x \in Range(ExpectedOrder))

RunSucceeded == failedStep = "" /\ pc \in {"success", "out", "exited"}

\* C1: main returns 0 only when every step succeeded; whenever a step
\* reported an error, the value main returns is not 0.
C1_ExitStatusReflectsFailure ==
    pc = "exited" => (exitCode = EXIT_SUCCESS <=> failedStep = "")

\* C5: the sections are produced in the order data-writer sync, tree, fragment
\* table, export table, identifier table, xattr table; the export table is
\* written exactly when exportable is set; once a step has failed no later
\* section is written; a run in which no step failed has written them all.
C5_SectionOrder ==
    /\ IsPrefix(sections, ExpectedOrder)
    /\ ("export_table" \in Range(sections) => exportable)
    /\ (exportable /\ "id_table" \in Range(sections)
            => "export_table" \in Range(sections))
    /\ (failedStep # "" => sections = SectionsThrough(failedStep))
    /\ (RunSucceeded => sections = ExpectedOrder)

C5_Witness ==
    /\ pc = "exited" /\ failedStep = "" /\ exportable
    /\ sections = << "data_writer_sync", "serialize_fstree", "fragment_table",
                     "export_table", "id_table", "xattr_table" >>

\* C6: when no step failed, bytes_used is the sink size after the xattr table
\* was written, rewriting the superblock leaves the sink size alone, and the
\* padding comes last: bytes_used is the size before padding and the final
\* size is a multiple of devblksize.
C6_BytesUsedBeforePadding ==
    /\ (pc \in {"super_rewrite", "padd"}
            => /\ bytes_used = sinkSize
               /\ sections # <<>> /\ Last(sections) = "xattr_table")
    /\ (RunSucceeded
            => /\ bytes_used = sizeBeforePad
               /\ sinkSize % devblksize = 0
               /\ sinkSize >= bytes_used
               /\ sinkSize - bytes_used < devblksize)

C6_Witness ==
    /\ pc = "exited" /\ failedStep = "" /\ packed # <<>>
    /\ sinkSize > bytes_used /\ bytes_used > SuperSize

(***************************************************************************)
(* Properties of process_tar_ball()                                        *)
(***************************************************************************)
\* a sparse map in ascending order without overlap
Ascending(m) ==
    \A j \in 2..Len(m) : m[j].offset >= m[j - 1].offset + m[j - 1].count

CountSum(m) == SeqSum(m, LAMBDA e : e.count)

WellFormedSparse(hdr) ==
    Ascending(hdr.sparse) /\ CountSum(hdr.sparse) = hdr.record_size

\* a decode anomaly, as the claim lists them
Anomaly(hdr) ==
    \/ hdr.name \in {"NULL", "", ".."}
    \/ hdr.unknown_record
    \/ (hdr.sparse # <<>> /\ ~WellFormedSparse(hdr))

NodesOf(i)  == { k \in 1..Len(nodes) : nodes[k].rec = i }
PackedOf(i) == { k \in 1..Len(packed) : packed[k].rec = i }

\* C2: a record that is a decode anomaly never gets a tree node and none of
\* its data reaches the data writer; with dont_skip set the run aborts at
\* that record; with dont_skip clear its body is drained, so that the next
\* header is read at the following record.
C2_AnomalyPolicy ==
    \A k \in 1..Len(reclog) :
        LET e == reclog[k]  hdr == stream[e.idx] IN
        Anomaly(hdr) =>
            /\ e.skipped
            /\ NodesOf(e.idx) = {} /\ PackedOf(e.idx) = {}
            /\ (dont_skip => tarRet = -1 /\ k = Len(reclog))
            /\ (~dont_skip /\ e.ret = 0 => e.endPos = HdrPos(e.idx + 1))

\* C3: for every record, skipped or packed, the bytes consumed after its
\* header are its record_size rounded up to a multiple of 512.
C3_ConsumesPaddedRecordSize ==
    \A k \in 1..Len(reclog) :
        LET e == reclog[k]  hdr == stream[e.idx] IN
        e.ret = 0 => e.endPos - e.bodyStart = RoundUp(hdr.record_size)

Supported(key) == key[1] \in {"user.", "trusted.", "security."}

\* C8: with no_xattr no key is added; otherwise the node gets the supported
\* keys in list order; an unsupported key fails the job when dont_skip is
\* set and is the only thing dropped when dont_skip is clear.
C8_XattrPolicy ==
    \A k \in 1..Len(nodes) :
        LET nd   == nodes[k]
            keys == stream[nd.rec].xattr
            want == SelectSeq(keys, Supported)
            bad  == \E j \in 1..Len(keys) : ~Supported(keys[j])
        IN  /\ (no_xattr => nd.xattr = <<>> /\ nd.xret = 0)
            /\ (~no_xattr /\ nd.xret = 0 => nd.xattr = want)
            /\ (~no_xattr /\ dont_skip /\ bad
                    => nd.xret = -1 /\ tarRet = -1 /\ k = Len(nodes))
            /\ (~no_xattr /\ ~dont_skip
                    => nd.xline # 277 /\ (nd.xline = 289 <=> nd.xret = 0))
            /\ (nd.xret # 0 => tarRet = -1 /\ IsPrefix(nd.xattr, want))

C8_Witness ==
    \E k \in 1..Len(nodes) :
        /\ ~no_xattr /\ ~dont_skip /\ nodes[k].xret = 0
        /\ stream[nodes[k].rec].xattr
             = << <<"user.", "a">>, <<"foo.", "x">>, <<"trusted.", "c">> >>
        /\ nodes[k].xattr = << <<"user.", "a">>, <<"trusted.", "c">> >>

\* C9: a record with a sparse map (and a good name and a known type) is
\* packed exactly when its extents ascend without overlap and their counts
\* add up to record_size; the map of the test fixture is accepted.
C9_SparseAccepted ==
    \A k \in 1..Len(reclog) :
        LET e == reclog[k]  hdr == stream[e.idx] IN
        (hdr.sparse # <<>> /\ hdr.name = "a" /\ ~hdr.unknown_record) =>
            /\ (~e.skipped <=> WellFormedSparse(hdr))
            /\ (~e.skipped /\ e.ret = 0
                    => /\ NodesOf(e.idx) # {}
                       /\ \E j \in PackedOf(e.idx) :
                              packed[j].bytes = hdr.record_size)
            /\ (e.skipped => NodesOf(e.idx) = {} /\ PackedOf(e.idx) = {})
            /\ (hdr.sparse = FixtureMap
                  /\ hdr.record_size = FixtureRecordSize => ~e.skipped)

C9_Witness ==
    \E k \in 1..Len(reclog) :
        LET e == reclog[k]  hdr == stream[e.idx] IN
        /\ hdr.sparse = FixtureMap /\ hdr.record_size = FixtureRecordSize
        /\ hdr.st_size = FixtureActualSize
        /\ ~e.skipped /\ e.ret = 0
        /\ \E j \in PackedOf(e.idx) : packed[j].bytes = FixtureRecordSize

(***************************************************************************)
(* Properties of sqfs_serialize_fstree()                                   *)
(***************************************************************************)
\* the proper descendants of node n
Descendants(n) ==
    LET RECURSIVE Up(_)
        Up(m) == IF m = 0 THEN {} ELSE {m} \cup Up(tree[m].parent)
    IN  { m \in NodeIds : m # n /\ n \in Up(m) }

WrittenAt(n) == { j \in 1..Len(inodeLog) : inodeLog[j].node = n }
CalledAt(n)  == { j \in 1..Len(callLog) : callLog[j] = n }

\* C4: an inode is written only after the inodes of all descendants of its
\* node; every directory entry carries the reference at which the child's
\* inode had been written before the listing; a directory's listing names
\* each of its children; the root inode is written last and
\* super.root_inode_ref is its reference.
C4_ChildrenBeforeParent ==
    /\ \A j \in 1..Len(inodeLog) :
          /\ \A d \in Descendants(inodeLog[j].node) :
                \E i \in 1..(j - 1) : inodeLog[i].node = d
          /\ inode_ref[inodeLog[j].node] = inodeLog[j].ref
          /\ S_ISDIR(inodeLog[j].node) =>
                \A c \in NodeIds : tree[c].parent = inodeLog[j].node =>
                    \E k \in 1..Len(dirLog) :
                        dirLog[k].dir = inodeLog[j].node /\ dirLog[k].child = c
    /\ \A k \in 1..Len(dirLog) :
          /\ tree[dirLog[k].child].parent = dirLog[k].dir
          /\ \E i \in 1..dirLog[k].at :
                /\ inodeLog[i].node = dirLog[k].child
                /\ inodeLog[i].ref = dirLog[k].ref
          /\ inode_ref[dirLog[k].child] = dirLog[k].ref
    /\ \A i, j \in 1..Len(inodeLog) :
          i # j => inodeLog[i].ref # inodeLog[j].ref
    /\ (serRet = "OK" =>
          /\ \A n \in NodeIds : WrittenAt(n) # {}
          /\ inodeLog[Len(inodeLog)].node = Root
          /\ root_inode_ref = inodeLog[Len(inodeLog)].ref
          /\ root_inode_ref = inode_ref[Root])

\* a finished run over a tree with a grandchild of the root whose reference
\* is not in the first metadata block
C4_Witness ==
    /\ serRet = "OK"
    /\ \E k \in 1..Len(dirLog) :
          /\ tree[dirLog[k].dir].parent = Root
          /\ dirLog[k].ref >= 65536

\* C10: serialize_tree_node is called at most once per node and, in a run
\* that succeeds, exactly once for every node; a regular file's user_ptr is
\* cleared by the call, so none is left after a successful run; a regular
\* file reached without one ends the run with SQFS_ERROR_INTERNAL.
C10_EachNodeOnce ==
    /\ \A n \in NodeIds : Cardinality(CalledAt(n)) <= 1
    /\ \A n \in NodeIds :
          user_ptr[n] = (initPtr[n] /\ CalledAt(n) = {})
    /\ \A k \in 1..Len(callLog) :
          S_ISREG(callLog[k]) /\ ~initPtr[callLog[k]] =>
              /\ k = Len(callLog)
              /\ spc = "done" /\ serRet = "SQFS_ERROR_INTERNAL"
              /\ WrittenAt(callLog[k]) = {}
    /\ (serRet = "OK" =>
          /\ \A n \in NodeIds : Cardinality(CalledAt(n)) = 1
          /\ Len(callLog) = Len(tree)
          /\ \A n \in NodeIds : ~user_ptr[n]
          /\ \A n \in NodeIds : S_ISREG(n) => initPtr[n])

C10_Witness ==
    /\ serRet = "OK"
    /\ Cardinality({ n \in NodeIds : S_ISREG(n) /\ initPtr[n] }) >= 2
    /\ \E n \in NodeIds : S_ISDIR(n) /\ n # Root

\* the end of the inode blocks that have reached the file
InodeEnd == inode_table_start + imBlock

SerFailed == serRet \notin {"running", "OK"}

\* C11: inode_table_start is the sink size before any inode is written;
\* directory_table_start is taken after both meta writers were flushed and
\* before the directory blocks are appended, so that
\* inode_table_start <= directory_table_start, the inode blocks lie between
\* the two and the directory blocks start at directory_table_start; a step
\* that fails ends the function with its error and no later step is done.
C11_TableStarts ==
    /\ (spc = "start" => inodeLog = <<>> /\ callLog = <<>>)
    /\ (spc # "start" /\ serRet # "OK" => serSink = InodeEnd)
    /\ (spc # "start" => inode_table_start >= SuperSize)
    /\ (dmFlushed => imFlushed)
    /\ (imFlushed => imOffset = 0 /\ WrittenAt(Root) # {})
    /\ (directory_table_start # 0 =>
          /\ imFlushed /\ dmFlushed
          /\ inode_table_start <= directory_table_start
          /\ directory_table_start = InodeEnd
          /\ \A j \in 1..Len(inodeLog) :
                inode_table_start + (inodeLog[j].ref \div 65536)
                    < directory_table_start)
    /\ (spc = "write_dm" \/ serRet = "OK" => directory_table_start # 0)
    /\ (serRet = "OK" =>
          /\ dmBuffered > 0
          /\ serSink = directory_table_start + dmBuffered)
    /\ (SerFailed =>
          /\ spc = "done"
          /\ serSink = InodeEnd
          /\ (~imFlushed => ~dmFlushed)
          /\ (~dmFlushed => directory_table_start = 0 /\ root_inode_ref = 0))

\* a finished run with more than one inode block
C11_Witness ==
    /\ serRet = "OK"
    /\ imBlock > MetaHeader + MetaBlockSize
    /\ directory_table_start > inode_table_start + MetaBlockSize
    /\ serSink > directory_table_start


(***************************************************************************)
(* Properties of the path separator helpers                                *)
(***************************************************************************)
\* the separators of the platform: '/' everywhere, '\' on Windows as well
IsSeparator(c) == c = "/" \/ (windows /\ c = "\\")

MinOf(S) == CHOOSE x \in S : \A y \in S : x <= y

\* C7: skip_path_seps returns the first position at or after the start that
\* holds no separator (the NUL when only separators are left); next_path_sep
\* returns the first position at or after the start that holds a separator
\* (the NUL when there is none).
C7_SeparatorHelpers ==
    /\ (pres.fn = "skip_path_seps" =>
          pres.at = MinOf({ j \in pstart..(Len(pstr) + 1) :
                              j = Len(pstr) + 1 \/ ~IsSeparator(pstr[j]) }))
    /\ (pres.fn = "next_path_sep" =>
          pres.at = MinOf({ j \in pstart..(Len(pstr) + 1) :
                              j = Len(pstr) + 1 \/ IsSeparator(pstr[j]) }))

(***************************************************************************)
(* Properties of getopt() and getopt_long()                                *)
(***************************************************************************)
\* the place the next call starts to read at: the character `current`
\* points at inside a cluster, the start of argv[optind] otherwise
ReadPos(oi, cur) ==
    IF Deref(cur) # NUL THEN <<cur.arg, cur.at>> ELSE <<oi, 1>>

LexLess(a, b) == a[1] < b[1] \/ (a[1] = b[1] /\ a[2] < b[2])

\* the last call returned an option character or '?'
Reported == optret \notin {"none", "-1", "SIGSEGV"}

\* C12: every call of getopt or getopt_long that returns an option character
\* or '?' has moved on (optind is larger, or the position inside the cluster
\* of short options), so that no argument is reported twice and a loop that
\* calls until -1, going on after '?', ends for every command line.
C12_EveryCallAdvances ==
    Reported =>
        LexLess(ReadPos(optindBefore, currentBefore), ReadPos(optind, current))

\* the name behind "--" of the argument the last call looked at is in
\* long_opts[]
Recognised(str) ==
    \E i \in 1..Len(long_opts) :
        entry_matches(long_opts[i], str, name_len(str))

\* C13: the search of getopt_long reads no entry behind those of the table
\* tar2sqfs passes: the index stops at an entry that exists, and a name that
\* is not in the table gives '?'.
C13_ScanStaysInTable ==
    scanIndex # -1 =>
        /\ scanIndex < Len(long_opts)
        /\ (~Recognised(argv[optindBefore]) => optret = "?")

====
